---- MODULE Spec2Model ----
(* A model of the testcase specification engine: the scope tree that the    *)
(* Spec builder grows (context.go, Spec.go), and the execution of one test   *)
(* case per Test call (Spec.runTestCase) with its hook chain, its parallel   *)
(* request, its body and its teardown, and the per-case variable resolver.   *)
EXTENDS Integers, Sequences, FiniteSets, TLC

\* ---------------------------------------------------------------- bounds
MaxCtx == 4        \* scopes that can be allocated, the root included
MaxHooks == 2      \* hooks that can be added over the whole tree
NumNames == 1      \* distinct variable names
NumBlocks == 2     \* distinct user factory blocks handed to Let
MaxCases == 2      \* test cases that can be in flight at the same time
MaxThreads == 2    \* goroutines of one case that read variables
MaxIter == 2       \* largest b.N handed to a benchmark function
MaxMutations == 3  \* hooks, definitions and parallel flags of a built tree

Ctx == 1..MaxCtx
Names == 1..NumNames
Blocks == 1..NumBlocks
Slots == 1..MaxCases
Threads == 1..MaxThreads
Root == 1
NoParent == 0

\* ------------------------------------------------------------ value kinds
\* A table of accepted kinds that has reflect.Slice in it as well.
acceptedConstKindWithSlice ==
    {"String", "Bool", "Int", "Int8", "Int16", "Int32", "Int64",
     "Uint", "Uint8", "Uint16", "Uint32", "Uint64",
     "Float32", "Float64", "Complex64", "Complex128", "Slice"}

\* reflect.Kind values accepted by LetValue.
acceptedConstKind ==
    {"String", "Bool", "Int", "Int8", "Int16", "Int32", "Int64",
     "Uint", "Uint8", "Uint16", "Uint32", "Uint64",
     "Float32", "Float64", "Complex64", "Complex128"}

\* Sample literals a caller hands to LetValue: their reflect.Kind and a code
\* that stands for the literal itself.
ConstInputs ==
    { [rkind |-> "Int", v |-> 42], [rkind |-> "Slice", v |-> 43],
      [rkind |-> "Invalid", v |-> 44], [rkind |-> "Uintptr", v |-> 45] }

\* A factory stored in a variable table: a Let block, or the closure LetValue
\* builds around a literal.
NoDef == [kind |-> "none", arg |-> 0]
LetFactory(b) == [kind |-> "let", arg |-> b]
ValFactory(v) == [kind |-> "val", arg |-> v]

HookKinds == {"Before", "After", "Around"}

\* A memoized value: the factory that made it, the case, the goroutine and
\* the benchmark pass in which it was made, and the factory's invocation
\* count then.
NoVal == [fac |-> NoDef, leaf |-> 0, by |-> 0, it |-> 0, nth |-> 0]
Idle == [st |-> "idle", n |-> 0]
\* A read that returned: the case, the goroutine and the benchmark pass of
\* the reader, the name, and the value it got (NoVal: UndefinedVariable).
NoRead == [leaf |-> 0, t |-> 0, it |-> 0, n |-> 0, val |-> NoVal]

\* The host runner handed to NewSpec.
TBKinds == {"T", "B", "other"}

VARIABLES
    tbKind,     \* Spec.testingTB: the kind of the host runner
    nctx,       \* number of allocated contexts
    parent,     \* context.parent
    hooks,      \* context.hooks
    defs,       \* context.vars.defs
    parallel,   \* context.parallel
    immutable,  \* context.immutable
    specs,      \* contexts whose *Spec the specification code holds
    result,     \* the panic that ended the specification code, if any
    built,      \* the top-level test function has returned
    leaf,       \* per case: spec.ctx of the test case
    pc,         \* per case: position in runTestCase
    step,       \* per case: index of the current statement of the closure
    hidx,       \* per case: hooks of the chain already invoked by setup
    defers,     \* per case: the teardown stack
    trace,      \* per case: what ran, in order
    panicking,  \* per case: a panic is propagating
    cache,      \* per case: memoized variable values
    calls,      \* per case: factory invocations per name
    th,         \* per case and thread: position in a variable read
    curIter,    \* per case and thread: benchmark iteration being run
    nleft,      \* per case: benchmark iterations still to hand out
    niter,      \* per case: benchmark iterations started
    lastRead,   \* the variable read that returned in the latest step, if any
    ran         \* a test body has started running at some time

treeVars == <<tbKind, nctx, parent, hooks, defs, parallel, immutable, specs>>
caseVars == <<leaf, pc, step, hidx, defers, trace, panicking, nleft, niter>>
readVars == <<cache, calls, th, curIter>>
vars == <<treeVars, result, built, caseVars, readVars, lastRead, ran>>

Live == 1..nctx

\* ------------------------------------------------------------ context.go
\* newContext: no hooks, no parent, an empty variable table, mutable.
newContext ==
    [hooks |-> <<>>, parent |-> NoParent, vars |-> [n \in Names |-> NoDef],
     parallel |-> FALSE, immutable |-> FALSE]


\* The chain of a context, leaf first: a scope is visited before its parent.
RECURSIVE linkFromLeafFirst(_, _)
linkFromLeafFirst(current, contexts) ==
    LET cs == Append(contexts, current)
    IN  IF parent[current] # NoParent
        THEN linkFromLeafFirst(parent[current], cs)
        ELSE cs

allLinkListElementLeafFirst(c) == linkFromLeafFirst(c, <<>>)

\* A chain made of every context allocated so far, whatever its place in the
\* tree.
RECURSIVE linkAll(_)
linkAll(n) == IF n = 0 THEN <<>> ELSE Append(linkAll(n - 1), n)

allLinkListElementAll(c) == linkAll(nctx)

\* The loop of allLinkListElement: prepend the current context, then move to
\* its parent until there is none.
RECURSIVE linkFrom(_, _)
linkFrom(current, contexts) ==
    LET cs == <<current>> \o contexts
    IN  IF parent[current] # NoParent
        THEN linkFrom(parent[current], cs)
        ELSE cs

\* context.allLinkListElement: the contexts from the root down to c.
allLinkListElement(c) == linkFrom(c, <<>>)

\* A parallel check that looks at the context alone.
isParallelOwn(c) == parallel[c]

\* context.isParallel: some context of the chain has the parallel flag.
isParallel(c) ==
    LET all == allLinkListElement(c)
    IN  \E i \in 1..Len(all) : parallel[all[i]]

\* An addHook that appends without looking at the immutable flag.
addHookUnchecked(c, h) ==
    [panic |-> FALSE, hooks |-> [hooks EXCEPT ![c] = Append(@, h)]]

\* An addHook that appends first and looks at the immutable flag afterwards.
addHookThenCheck(c, h) ==
    [panic |-> immutable[c], hooks |-> [hooks EXCEPT ![c] = Append(@, h)]]

\* context.addHook: panic with hookWarning on an immutable context, else
\* append the hook to the context's list.
addHook(c, h) ==
    IF immutable[c]
    THEN [panic |-> TRUE, hooks |-> hooks]
    ELSE [panic |-> FALSE, hooks |-> [hooks EXCEPT ![c] = Append(@, h)]]

\* A let that also writes the definition into the parent's table.
letIntoParent(c, varName, letBlock) ==
    [d \in Ctx |->
        IF d = c \/ d = parent[c]
        THEN [defs[d] EXCEPT ![varName] = letBlock]
        ELSE defs[d]]

\* context.let: c.vars.defs[varName] = letBlock.
let(c, varName, letBlock) == [defs EXCEPT ![c][varName] = letBlock]

\* -------------------------------------------------------------- Spec.go
\* A newSubSpec that leaves the parent mutable.
newSubSpecNoFreeze(c) ==
    [immutable |-> [immutable EXCEPT ![nctx + 1] = newContext.immutable],
     nctx      |-> nctx + 1,
     parent    |-> [parent EXCEPT ![nctx + 1] = c],
     hooks     |-> [hooks EXCEPT ![nctx + 1] = newContext.hooks],
     defs      |-> [defs EXCEPT ![nctx + 1] = newContext.vars],
     parallel  |-> [parallel EXCEPT ![nctx + 1] = newContext.parallel],
     sub       |-> nctx + 1]

\* A newSubSpec that links the two contexts the wrong way round: the new
\* context becomes the parent of the one it was opened from.
newSubSpecReparent(c) ==
    [immutable |-> [immutable EXCEPT ![c] = TRUE,
                                     ![nctx + 1] = newContext.immutable],
     nctx      |-> nctx + 1,
     parent    |-> [parent EXCEPT ![c] = nctx + 1],
     hooks     |-> [hooks EXCEPT ![nctx + 1] = newContext.hooks],
     defs      |-> [defs EXCEPT ![nctx + 1] = newContext.vars],
     parallel  |-> [parallel EXCEPT ![nctx + 1] = newContext.parallel],
     sub       |-> nctx + 1]

\* A newSubSpec that flips the immutable flag of the context instead of
\* setting it.
newSubSpecToggle(c) ==
    [immutable |-> [immutable EXCEPT ![c] = ~immutable[c],
                                     ![nctx + 1] = newContext.immutable],
     nctx      |-> nctx + 1,
     parent    |-> [parent EXCEPT ![nctx + 1] = c],
     hooks     |-> [hooks EXCEPT ![nctx + 1] = newContext.hooks],
     defs      |-> [defs EXCEPT ![nctx + 1] = newContext.vars],
     parallel  |-> [parallel EXCEPT ![nctx + 1] = newContext.parallel],
     sub       |-> nctx + 1]

\* Spec.newSubSpec: mark the context immutable, then allocate a fresh context
\* whose parent it is.
newSubSpec(c) ==
    [immutable |-> [immutable EXCEPT ![c] = TRUE,
                                     ![nctx + 1] = newContext.immutable],
     nctx      |-> nctx + 1,
     parent    |-> [parent EXCEPT ![nctx + 1] = c],
     hooks     |-> [hooks EXCEPT ![nctx + 1] = newContext.hooks],
     defs      |-> [defs EXCEPT ![nctx + 1] = newContext.vars],
     parallel  |-> [parallel EXCEPT ![nctx + 1] = newContext.parallel],
     sub       |-> nctx + 1]

\* The specification code runs, one builder call at a time, while the
\* top-level test function has not returned and no test case occupies the
\* calling goroutine (tb.Run blocks its caller until the case has finished or
\* has parked itself in t.Parallel).
\* A panic of a builder call is not recovered: it ends the specification code.
NoPanic == [op |-> "none", ctx |-> 0, out |-> "ok", scalar |-> TRUE]
Outcome(op, c, out) == [op |-> op, ctx |-> c, out |-> out, scalar |-> TRUE]

Building ==
    /\ ~built /\ result = NoPanic
    /\ \A k \in Slots : pc[k] \in {"free", "parked"}

\* Spec.Context (and Describe, When, And, which call it with a prefixed
\* description): open a sub-scope and hand its Spec to the block.
Context(c) ==
    /\ Building /\ c \in specs /\ nctx < MaxCtx
    /\ LET sub == newSubSpec(c)
       IN  /\ immutable' = sub.immutable
           /\ nctx' = sub.nctx
           /\ parent' = sub.parent
           /\ hooks' = sub.hooks
           /\ defs' = sub.defs
           /\ parallel' = sub.parallel
           /\ specs' = specs \cup {sub.sub}
    /\ UNCHANGED <<tbKind, result, built, caseVars, readVars>>
    /\ lastRead' = NoRead
    /\ UNCHANGED ran

\* The hook Before, After and Around hand to addHook.
HookOf(c, kind) == [ctx |-> c, pos |-> Len(hooks[c]) + 1, kind |-> kind]

RECURSIVE HooksUpTo(_)
HooksUpTo(c) == IF c = 0 THEN 0 ELSE Len(hooks[c]) + HooksUpTo(c - 1)
TotalHooks == HooksUpTo(MaxCtx)

AddHookCall(op, c) ==
    /\ Building /\ c \in specs
    /\ LET r == addHook(c, HookOf(c, op))
       IN  /\ hooks' = r.hooks
           /\ IF r.panic
              THEN result' = Outcome(op, c, "hookWarning")
              ELSE TotalHooks < MaxHooks /\ UNCHANGED result
    /\ UNCHANGED <<tbKind, nctx, parent, defs, parallel, immutable, specs,
                   built, caseVars, readVars>>
    /\ lastRead' = NoRead
    /\ UNCHANGED ran

\* Spec.Before: the block runs at setup, the teardown is a no-op.
Before(c) == AddHookCall("Before", c)

\* Spec.After: nothing runs at setup, the block is the teardown.
After(c) == AddHookCall("After", c)

\* Spec.Around: the block runs at setup and returns the teardown.
Around(c) == AddHookCall("Around", c)

\* Spec.Parallel (and NoSideEffect, which calls it).
Parallel(c) ==
    /\ Building /\ c \in specs
    /\ IF immutable[c]
       THEN /\ result' = Outcome("Parallel", c, "parallelWarn")
            /\ UNCHANGED parallel
       ELSE /\ parallel' = [parallel EXCEPT ![c] = TRUE]
            /\ UNCHANGED result
    /\ UNCHANGED <<tbKind, nctx, parent, hooks, defs, immutable, specs,
                   built, caseVars, readVars>>
    /\ lastRead' = NoRead
    /\ UNCHANGED ran

\* A Let that stores the definition without looking at the immutable flag.
LetCallUnchecked(c, varName, letBlock) ==
    [panic |-> FALSE, defs |-> let(c, varName, letBlock)]

\* The body of Spec.Let: the outcome and the variable tables after the call.
LetCall(c, varName, letBlock) ==
    IF immutable[c]
    THEN [panic |-> TRUE, defs |-> defs]
    ELSE [panic |-> FALSE, defs |-> let(c, varName, letBlock)]

\* Spec.Let
Let(c, varName, b) ==
    /\ Building /\ c \in specs
    /\ LET r == LetCall(c, varName, LetFactory(b))
       IN  /\ defs' = r.defs
           /\ result' = IF r.panic THEN Outcome("Let", c, "varWarning") ELSE result
    /\ UNCHANGED <<tbKind, nctx, parent, hooks, parallel, immutable, specs,
                   built, caseVars, readVars>>
    /\ lastRead' = NoRead
    /\ UNCHANGED ran

\* Spec.LetValue: the kind of the literal is checked first, then Let is
\* called with a closure that returns a copy of the literal.
LetValue(c, varName, value) ==
    /\ Building /\ c \in specs
    /\ IF value.rkind \notin acceptedConstKind
       THEN /\ result' = [op |-> "LetValue", ctx |-> c,
                           out |-> "panicMessageForLetValue", scalar |-> FALSE]
            /\ UNCHANGED defs
       ELSE LET r == LetCall(c, varName, ValFactory(value.v))
            IN  /\ defs' = r.defs
                /\ result' = IF r.panic THEN Outcome("LetValue", c, "varWarning")
                              ELSE result
    /\ UNCHANGED <<tbKind, nctx, parent, hooks, parallel, immutable, specs,
                   built, caseVars, readVars>>
    /\ lastRead' = NoRead
    /\ UNCHANGED ran

\* ------------------------------------------------ the per-case object T

\* newT: a per-case object with an empty memoization cache and an empty
\* teardown stack.
newT == [cache |-> [n \in Names |-> NoVal], defers |-> <<>>]

\* One per-case object that every closure shares.
testCaseShared(k) == 1

\* `testCase := newT(t)` inside the closure handed to tb.Run: each run of the
\* closure has a per-case object of its own.
testCase(k) == k

\* CollectHooks: the hooks of the chain's contexts, concatenated in chain
\* order, each context's hooks in the order they were added.
RECURSIVE CollectHooks(_)
CollectHooks(chain) ==
    IF chain = <<>> THEN <<>>
    ELSE hooks[Head(chain)] \o CollectHooks(Tail(chain))

\* The hooks T.setup runs for a case, in the order it runs them.
SetupHooks(k) == CollectHooks(allLinkListElement(leaf[k]))

\* Resolve: the definition of the nearest scope, from the leaf towards the
\* root, whose table has the name; NoDef when no scope has it.
RECURSIVE Resolve(_, _)
Resolve(c, n) ==
    IF defs[c][n] # NoDef THEN defs[c][n]
    ELSE IF parent[c] = NoParent THEN NoDef
    ELSE Resolve(parent[c], n)

\* A resolver without mutual exclusion: any thread may enter at any time.
lockNone(k, n) == TRUE

\* The per-name guard of the resolver: no thread of the case is inside a
\* resolution of the name.
lockFree(k, n) == \A t \in Threads : th[k][t].st = "idle" \/ th[k][t].n # n

\* A teardown that gives up at the first failing action.
teardownStopAtPanic(rest) == <<>>

\* T.teardown after a teardown action has panicked: the remaining actions
\* are still to be invoked.
teardownAfterPanic(rest) == rest

\* ------------------------------------------------------ Spec.runTestCase
\* A closure that asks for parallel execution before it runs the setup.
runTestCaseTParallelFirst(par) ==
    IF par THEN <<"parallel", "setup", "body">> ELSE <<"setup", "body">>

\* The statements of the closure handed to (*testing.T).Run, after newT and
\* the deferred teardown: setup, then t.Parallel() when the chain is
\* parallel, then the test body.
runTestCaseT(par) ==
    IF par THEN <<"setup", "parallel", "body">> ELSE <<"setup", "body">>

\* A benchmark closure that runs the loop first and the setup after it.
runTestCaseBLoopFirst(par) ==
    IF par THEN <<"loopPar", "setup">> ELSE <<"loop", "setup">>

\* The statements of the closure handed to (*testing.B).Run: setup, then the
\* loop over the body, b.RunParallel when the chain is parallel.
runTestCaseB(par) ==
    IF par THEN <<"setup", "loopPar">> ELSE <<"setup", "loop">>

program(k) ==
    IF tbKind = "T" THEN runTestCaseT(isParallel(leaf[k]))
    ELSE runTestCaseB(isParallel(leaf[k]))

\* The statement after the current one; the closure returns after the last
\* one, and the deferred teardown runs.
NextPc(k) ==
    IF step[k] < Len(program(k)) THEN program(k)[step[k] + 1] ELSE "teardown"

\* A closure that calls teardown after the body instead of deferring it.
afterPanicNoDefer(k) == "done"

\* A closure in which a panic is swallowed and the next statement runs.
afterPanicGoOn(k) == NextPc(k)

\* `defer testCase.teardown()`: a panic of the setup or of the body unwinds
\* into the teardown.
afterPanic(k) == "teardown"

FreeSlot == CHOOSE k \in Slots : pc[k] = "free" /\ \A j \in 1..(k - 1) : pc[j] # "free"

NoHook == [ctx |-> 0, pos |-> 0, kind |-> "none"]
Event(e, h, i) == [e |-> e, h |-> h, it |-> i]

\* A type switch that takes every host runner for a benchmark runner.
runTestCaseKindsAny == TBKinds

\* The cases of the type switch of runTestCase that hand a closure to tb.Run:
\* *testing.T and *testing.B.
runTestCaseKinds == {"T", "B"}

\* Spec.Test (and Then, which calls it): open the sub-scope of the case, then
\* runTestCase, which hands a closure to tb.Run or panics when the host
\* runner is neither a *testing.T nor a *testing.B.
Test(c) ==
    /\ Building /\ c \in specs /\ nctx < MaxCtx
    /\ LET sub == newSubSpec(c)
       IN  /\ immutable' = sub.immutable
           /\ nctx' = sub.nctx
           /\ parent' = sub.parent
           /\ hooks' = sub.hooks
           /\ defs' = sub.defs
           /\ parallel' = sub.parallel
           /\ IF tbKind \in runTestCaseKinds
              THEN /\ \E k \in Slots : pc[k] = "free"
                   /\ leaf' = [leaf EXCEPT ![FreeSlot] = sub.sub]
                   /\ pc' = [pc EXCEPT ![FreeSlot] = "start"]
                   /\ UNCHANGED result
              ELSE /\ result' = Outcome("Test", c, "unsupported")
                   /\ UNCHANGED <<leaf, pc>>
    /\ UNCHANGED <<tbKind, specs, built, step, hidx, defers, trace,
                   panicking, nleft, niter, readVars>>
    /\ lastRead' = NoRead
    /\ UNCHANGED ran

\* The host runner starts the closure: newT, the deferred teardown, and for
\* a benchmark the iteration count b.N the runner has chosen (the loop
\* `for i := 0; i < b.N; i++` makes no pass when it is 0).
RunStart(k, n) ==
    /\ pc[k] = "start"
    /\ tbKind = "T" => n = 0
    /\ step' = [step EXCEPT ![k] = 1]
    /\ pc' = [pc EXCEPT ![k] = program(k)[1]]
    /\ cache' = [cache EXCEPT ![testCase(k)] = newT.cache]
    /\ calls' = [calls EXCEPT ![testCase(k)] = [m \in Names |-> 0]]
    /\ defers' = [defers EXCEPT ![k] = newT.defers]
    /\ nleft' = [nleft EXCEPT ![k] = n]
    /\ UNCHANGED <<treeVars, result, built, leaf, hidx, trace, panicking,
                   niter, th, curIter>>
    /\ lastRead' = NoRead
    /\ UNCHANGED ran

\* T.setup, one hook: invoke it and push the teardown it returns.
SetupHook(k) ==
    /\ pc[k] = "setup" /\ th[k][1] = Idle
    /\ hidx[k] < Len(SetupHooks(k))
    /\ LET h == SetupHooks(k)[hidx[k] + 1]
       IN  /\ hidx' = [hidx EXCEPT ![k] = @ + 1]
           /\ defers' = [defers EXCEPT ![k] = Append(@, h)]
           /\ trace' = [trace EXCEPT ![k] = Append(@, Event("setup", h, 0))]
    /\ UNCHANGED <<treeVars, result, built, leaf, pc, step, panicking, nleft,
                   niter, readVars>>
    /\ lastRead' = NoRead
    /\ UNCHANGED ran

\* T.setup, one hook whose block panics: only Before and Around run a block
\* at setup. No teardown is pushed for it.
SetupHookPanic(k) ==
    /\ pc[k] = "setup" /\ th[k][1] = Idle
    /\ hidx[k] < Len(SetupHooks(k))
    /\ LET h == SetupHooks(k)[hidx[k] + 1]
       IN  /\ h.kind \in {"Before", "Around"}
           /\ trace' = [trace EXCEPT ![k] = Append(@, Event("setupPanic", h, 0))]
    /\ panicking' = [panicking EXCEPT ![k] = TRUE]
    /\ pc' = [pc EXCEPT ![k] = afterPanic(k)]
    /\ UNCHANGED <<treeVars, result, built, leaf, step, hidx, defers, nleft,
                   niter, readVars>>
    /\ lastRead' = NoRead
    /\ UNCHANGED ran

\* T.setup returns after the last hook of the chain.
SetupReturn(k) ==
    /\ pc[k] = "setup" /\ th[k][1] = Idle
    /\ hidx[k] = Len(SetupHooks(k))
    /\ pc' = [pc EXCEPT ![k] = NextPc(k)]
    /\ step' = [step EXCEPT ![k] = @ + 1]
    /\ UNCHANGED <<treeVars, result, built, leaf, hidx, defers, trace,
                   panicking, nleft, niter, readVars>>
    /\ lastRead' = NoRead
    /\ UNCHANGED ran

\* t.Parallel(): the request to the host runner, which parks the case until
\* the top-level test function has returned.
RequestParallel(k) ==
    /\ pc[k] = "parallel"
    /\ trace' = [trace EXCEPT ![k] = Append(@, Event("parallel", NoHook, 0))]
    /\ pc' = [pc EXCEPT ![k] = "parked"]
    /\ UNCHANGED <<treeVars, result, built, leaf, step, hidx, defers,
                   panicking, nleft, niter, readVars>>
    /\ lastRead' = NoRead
    /\ UNCHANGED ran

\* The host runner resumes a parked case.
Resume(k) ==
    /\ pc[k] = "parked" /\ built
    /\ pc' = [pc EXCEPT ![k] = NextPc(k)]
    /\ step' = [step EXCEPT ![k] = @ + 1]
    /\ UNCHANGED <<treeVars, result, built, leaf, hidx, defers, trace,
                   panicking, nleft, niter, readVars>>
    /\ lastRead' = NoRead
    /\ UNCHANGED ran

\* The top-level test function returns: the specification is built.
Finish ==
    /\ Building
    /\ built' = TRUE
    /\ UNCHANGED <<treeVars, result, caseVars, readVars>>
    /\ lastRead' = NoRead
    /\ UNCHANGED ran

\* The test body starts.
BodyStart(k) ==
    /\ pc[k] = "body"
    /\ trace' = [trace EXCEPT ![k] = Append(@, Event("body", NoHook, 0))]
    /\ pc' = [pc EXCEPT ![k] = "inbody"]
    /\ UNCHANGED <<treeVars, result, built, leaf, step, hidx, defers,
                   panicking, nleft, niter, readVars>>
    /\ lastRead' = NoRead
    /\ ran' = TRUE

AllIdle(k) == \A t \in Threads : th[k][t] = Idle

\* The test body returns; the closure is at its end.
BodyReturn(k) ==
    /\ pc[k] = "inbody" /\ AllIdle(k)
    /\ pc' = [pc EXCEPT ![k] = NextPc(k)]
    /\ step' = [step EXCEPT ![k] = @ + 1]
    /\ UNCHANGED <<treeVars, result, built, leaf, hidx, defers, trace,
                   panicking, nleft, niter, readVars>>
    /\ lastRead' = NoRead
    /\ UNCHANGED ran

\* The test body panics.
BodyPanic(k) ==
    /\ pc[k] = "inbody" /\ AllIdle(k)
    /\ trace' = [trace EXCEPT ![k] = Append(@, Event("bodyPanic", NoHook, 0))]
    /\ panicking' = [panicking EXCEPT ![k] = TRUE]
    /\ pc' = [pc EXCEPT ![k] = afterPanic(k)]
    /\ UNCHANGED <<treeVars, result, built, leaf, step, hidx, defers, nleft,
                   niter, readVars>>
    /\ lastRead' = NoRead
    /\ UNCHANGED ran

\* The goroutines that run the body of a benchmark: the caller's for the
\* plain loop, the workers of b.RunParallel otherwise.
Workers(k) == IF pc[k] = "loop" THEN {1} ELSE Threads

\* One pass of the benchmark loop starts: `test(testCase)` with the same
\* testCase as every other pass.
IterStart(k, t) ==
    /\ pc[k] \in {"loop", "loopPar"} /\ t \in Workers(k)
    /\ curIter[k][t] = 0 /\ nleft[k] > 0
    /\ nleft' = [nleft EXCEPT ![k] = @ - 1]
    /\ niter' = [niter EXCEPT ![k] = @ + 1]
    /\ curIter' = [curIter EXCEPT ![k][t] = niter[k] + 1]
    /\ trace' = [trace EXCEPT ![k] = Append(@, Event("body", NoHook, niter[k] + 1))]
    /\ UNCHANGED <<treeVars, result, built, leaf, pc, step, hidx, defers,
                   panicking, cache, calls, th>>
    /\ lastRead' = NoRead
    /\ ran' = TRUE

\* One pass of the benchmark loop returns.
IterEnd(k, t) ==
    /\ pc[k] \in {"loop", "loopPar"}
    /\ curIter[k][t] > 0 /\ th[k][t] = Idle
    /\ curIter' = [curIter EXCEPT ![k][t] = 0]
    /\ UNCHANGED <<treeVars, result, built, caseVars, cache, calls, th>>
    /\ lastRead' = NoRead
    /\ UNCHANGED ran

\* The body panics in a pass of the plain loop, on the closure's goroutine.
IterPanic(k) ==
    /\ pc[k] = "loop"
    /\ curIter[k][1] > 0 /\ th[k][1] = Idle
    /\ curIter' = [curIter EXCEPT ![k][1] = 0]
    /\ trace' = [trace EXCEPT ![k] = Append(@, Event("bodyPanic", NoHook, 0))]
    /\ panicking' = [panicking EXCEPT ![k] = TRUE]
    /\ pc' = [pc EXCEPT ![k] = afterPanic(k)]
    /\ UNCHANGED <<treeVars, result, built, leaf, step, hidx, defers, nleft,
                   niter, cache, calls, th>>
    /\ lastRead' = NoRead
    /\ UNCHANGED ran

\* The body panics on a worker goroutine of b.RunParallel: nothing recovers
\* it and the process dies.
WorkerPanic(k, t) ==
    /\ pc[k] = "loopPar"
    /\ curIter[k][t] > 0 /\ th[k][t] = Idle
    /\ trace' = [trace EXCEPT ![k] = Append(@, Event("bodyPanic", NoHook, 0))]
    /\ pc' = [pc EXCEPT ![k] = "crashed"]
    /\ UNCHANGED <<treeVars, result, built, leaf, step, hidx, defers,
                   panicking, nleft, niter, readVars>>
    /\ lastRead' = NoRead
    /\ UNCHANGED ran

\* The benchmark loop is over.
LoopReturn(k) ==
    /\ pc[k] \in {"loop", "loopPar"}
    /\ nleft[k] = 0 /\ \A t \in Threads : curIter[k][t] = 0
    /\ pc' = [pc EXCEPT ![k] = NextPc(k)]
    /\ step' = [step EXCEPT ![k] = @ + 1]
    /\ UNCHANGED <<treeVars, result, built, leaf, hidx, defers, trace,
                   panicking, nleft, niter, readVars>>
    /\ lastRead' = NoRead
    /\ UNCHANGED ran

\* T.teardown, one action: the last pushed teardown is popped and invoked.
TeardownStep(k) ==
    /\ pc[k] = "teardown" /\ th[k][1] = Idle
    /\ defers[k] # <<>>
    /\ LET h == defers[k][Len(defers[k])]
       IN  trace' = [trace EXCEPT ![k] = Append(@, Event("teardown", h, 0))]
    /\ defers' = [defers EXCEPT ![k] = SubSeq(@, 1, Len(@) - 1)]
    /\ UNCHANGED <<treeVars, result, built, leaf, pc, step, hidx, panicking,
                   nleft, niter, readVars>>
    /\ lastRead' = NoRead
    /\ UNCHANGED ran

\* T.teardown, one action that panics: only After and Around run a block at
\* teardown.
TeardownPanic(k) ==
    /\ pc[k] = "teardown" /\ th[k][1] = Idle
    /\ defers[k] # <<>>
    /\ LET h == defers[k][Len(defers[k])]
       IN  /\ h.kind \in {"After", "Around"}
           /\ trace' = [trace EXCEPT ![k] = Append(@, Event("teardownPanic", h, 0))]
    /\ defers' = [defers EXCEPT ![k] = teardownAfterPanic(SubSeq(@, 1, Len(@) - 1))]
    /\ panicking' = [panicking EXCEPT ![k] = TRUE]
    /\ UNCHANGED <<treeVars, result, built, leaf, pc, step, hidx, nleft,
                   niter, readVars>>
    /\ lastRead' = NoRead
    /\ UNCHANGED ran

\* T.teardown returns; a pending panic goes on to the host runner.
TeardownReturn(k) ==
    /\ pc[k] = "teardown" /\ th[k][1] = Idle
    /\ defers[k] = <<>>
    /\ pc' = [pc EXCEPT ![k] = "done"]
    /\ UNCHANGED <<treeVars, result, built, leaf, step, hidx, defers, trace,
                   panicking, nleft, niter, readVars>>
    /\ lastRead' = NoRead
    /\ UNCHANGED ran

\* The host runner is done with a case that did not panic; its per-case
\* object is garbage. A panic that reaches the host runner ends the process.
CaseEnd(k) ==
    /\ pc[k] = "done" /\ ~panicking[k]
    /\ pc' = [pc EXCEPT ![k] = "free"]
    /\ leaf' = [leaf EXCEPT ![k] = 0]
    /\ step' = [step EXCEPT ![k] = 0]
    /\ hidx' = [hidx EXCEPT ![k] = 0]
    /\ defers' = [defers EXCEPT ![k] = <<>>]
    /\ trace' = [trace EXCEPT ![k] = <<>>]
    /\ panicking' = [panicking EXCEPT ![k] = FALSE]
    /\ nleft' = [nleft EXCEPT ![k] = 0]
    /\ niter' = [niter EXCEPT ![k] = 0]
    /\ cache' = [cache EXCEPT ![testCase(k)] = newT.cache]
    /\ calls' = [calls EXCEPT ![testCase(k)] = [n \in Names |-> 0]]
    /\ UNCHANGED <<treeVars, result, built, th, curIter>>
    /\ lastRead' = NoRead
    /\ UNCHANGED ran

\* ---------------------------------------------------- variable resolver
\* The user code that can read a variable of the case: any goroutine of the
\* body, a benchmark worker inside a pass of the loop, and the goroutine of
\* the closure inside the block a hook runs at setup (Before, Around) or at
\* teardown (After, Around); the latest such block is the one reading.
CanRead(k, t) ==
    \/ pc[k] = "inbody"
    \/ pc[k] \in {"loop", "loopPar"} /\ curIter[k][t] > 0
    \/ /\ pc[k] = "setup" /\ t = 1 /\ hidx[k] >= 1
       /\ SetupHooks(k)[hidx[k]].kind \in {"Before", "Around"}
    \/ /\ pc[k] = "teardown" /\ t = 1 /\ trace[k] # <<>>
       /\ trace[k][Len(trace[k])].e = "teardown"
       /\ trace[k][Len(trace[k])].h.kind \in {"After", "Around"}

ReadOf(k, t, v) ==
    [leaf |-> leaf[k], t |-> t, it |-> curIter[k][t], n |-> th[k][t].n,
     val |-> v]

\* A read of the variable enters the resolver, under the per-name guard.
ReadLock(k, t, n) ==
    /\ CanRead(k, t) /\ th[k][t] = Idle
    /\ lockFree(k, n)
    /\ th' = [th EXCEPT ![k][t] = [st |-> "locked", n |-> n]]
    /\ UNCHANGED <<treeVars, result, built, caseVars, cache, calls, curIter>>
    /\ lastRead' = NoRead
    /\ UNCHANGED ran

\* The name is already memoized: the stored value is returned.
ReadHit(k, t) ==
    /\ th[k][t].st = "locked"
    /\ cache[testCase(k)][th[k][t].n] # NoVal
    /\ lastRead' = ReadOf(k, t, cache[testCase(k)][th[k][t].n])
    /\ th' = [th EXCEPT ![k][t] = Idle]
    /\ UNCHANGED <<treeVars, result, built, caseVars, cache, calls, curIter>>
    /\ UNCHANGED ran

\* First resolution of the name: its factory is invoked.
ReadMiss(k, t) ==
    /\ th[k][t].st = "locked"
    /\ cache[testCase(k)][th[k][t].n] = NoVal
    /\ Resolve(leaf[k], th[k][t].n) # NoDef
    /\ calls' = [calls EXCEPT ![testCase(k)][th[k][t].n] = @ + 1]
    /\ th' = [th EXCEPT ![k][t].st = "computing"]
    /\ UNCHANGED <<treeVars, result, built, caseVars, cache, curIter>>
    /\ lastRead' = NoRead
    /\ UNCHANGED ran

\* No scope of the chain defines the name: UndefinedVariable.
ReadUndefined(k, t) ==
    /\ th[k][t].st = "locked"
    /\ cache[testCase(k)][th[k][t].n] = NoVal
    /\ Resolve(leaf[k], th[k][t].n) = NoDef
    /\ lastRead' = ReadOf(k, t, NoVal)
    /\ th' = [th EXCEPT ![k][t] = Idle]
    /\ UNCHANGED <<treeVars, result, built, caseVars, cache, calls, curIter>>
    /\ UNCHANGED ran

\* The factory returns: the value is stored and returned.
ReadStore(k, t) ==
    /\ th[k][t].st = "computing"
    /\ LET n == th[k][t].n
           v == [fac |-> Resolve(leaf[k], n), leaf |-> leaf[k], by |-> t,
                 it |-> curIter[k][t], nth |-> calls[testCase(k)][n]]
       IN  /\ cache' = [cache EXCEPT ![testCase(k)][n] = v]
           /\ lastRead' = ReadOf(k, t, v)
    /\ th' = [th EXCEPT ![k][t] = Idle]
    /\ UNCHANGED <<treeVars, result, built, caseVars, calls, curIter>>
    /\ UNCHANGED ran

\* ------------------------------------------------------- specification
\* NewSpec: a root context, and the host runner it was given.
Init ==
    /\ tbKind \in TBKinds
    /\ nctx = 1
    /\ parent = [c \in Ctx |-> newContext.parent]
    /\ hooks = [c \in Ctx |-> newContext.hooks]
    /\ defs = [c \in Ctx |-> newContext.vars]
    /\ parallel = [c \in Ctx |-> newContext.parallel]
    /\ immutable = [c \in Ctx |-> newContext.immutable]
    /\ specs = {Root}
    /\ result = NoPanic
    /\ built = FALSE
    /\ leaf = [k \in Slots |-> 0]
    /\ pc = [k \in Slots |-> "free"]
    /\ step = [k \in Slots |-> 0]
    /\ hidx = [k \in Slots |-> 0]
    /\ defers = [k \in Slots |-> <<>>]
    /\ trace = [k \in Slots |-> <<>>]
    /\ panicking = [k \in Slots |-> FALSE]
    /\ cache = [k \in Slots |-> newT.cache]
    /\ calls = [k \in Slots |-> [n \in Names |-> 0]]
    /\ th = [k \in Slots |-> [t \in Threads |-> Idle]]
    /\ curIter = [k \in Slots |-> [t \in Threads |-> 0]]
    /\ nleft = [k \in Slots |-> 0]
    /\ niter = [k \in Slots |-> 0]
    /\ lastRead = NoRead
    /\ ran = FALSE

Next ==
    \/ \E c \in Ctx : Context(c)
    \/ \E c \in Ctx : Test(c)
    \/ \E c \in Ctx : Before(c)
    \/ \E c \in Ctx : After(c)
    \/ \E c \in Ctx : Around(c)
    \/ \E c \in Ctx : Parallel(c)
    \/ \E c \in Ctx, n \in Names, b \in Blocks : Let(c, n, b)
    \/ \E c \in Ctx, n \in Names, v \in ConstInputs : LetValue(c, n, v)
    \/ Finish
    \/ \E k \in Slots, n \in 0..MaxIter : RunStart(k, n)
    \/ \E k \in Slots : SetupHook(k)
    \/ \E k \in Slots : SetupHookPanic(k)
    \/ \E k \in Slots : SetupReturn(k)
    \/ \E k \in Slots : RequestParallel(k)
    \/ \E k \in Slots : Resume(k)
    \/ \E k \in Slots : BodyStart(k)
    \/ \E k \in Slots : BodyReturn(k)
    \/ \E k \in Slots : BodyPanic(k)
    \/ \E k \in Slots, t \in Threads : IterStart(k, t)
    \/ \E k \in Slots, t \in Threads : IterEnd(k, t)
    \/ \E k \in Slots : IterPanic(k)
    \/ \E k \in Slots, t \in Threads : WorkerPanic(k, t)
    \/ \E k \in Slots : LoopReturn(k)
    \/ \E k \in Slots : TeardownStep(k)
    \/ \E k \in Slots : TeardownPanic(k)
    \/ \E k \in Slots : TeardownReturn(k)
    \/ \E k \in Slots : CaseEnd(k)
    \/ \E k \in Slots, t \in Threads, n \in Names : ReadLock(k, t, n)
    \/ \E k \in Slots, t \in Threads : ReadHit(k, t)
    \/ \E k \in Slots, t \in Threads : ReadMiss(k, t)
    \/ \E k \in Slots, t \in Threads : ReadUndefined(k, t)
    \/ \E k \in Slots, t \in Threads : ReadStore(k, t)

Spec == Init /\ [][Next]_vars

\* The builder calls that open scopes and start cases.
ScopeCalls ==
    \/ \E c \in Ctx : Context(c)
    \/ \E c \in Ctx : Test(c)
    \/ \E c \in Ctx : Parallel(c)
    \/ Finish

\* The builder calls that add hooks.
HookCalls ==
    \/ \E c \in Ctx : Before(c)
    \/ \E c \in Ctx : After(c)
    \/ \E c \in Ctx : Around(c)

\* The builder calls that define variables.
LetCalls ==
    \/ \E c \in Ctx, n \in Names, b \in Blocks : Let(c, n, b)
    \/ \E c \in Ctx, n \in Names, v \in ConstInputs : LetValue(c, n, v)

\* A single test case from start to end, panics apart.
CaseSteps ==
    \/ \E k \in Slots : RunStart(k, 0)
    \/ \E k \in Slots : SetupReturn(k)
    \/ \E k \in Slots : RequestParallel(k)
    \/ \E k \in Slots : Resume(k)
    \/ \E k \in Slots : BodyStart(k)
    \/ \E k \in Slots : BodyReturn(k)
    \/ \E k \in Slots : TeardownReturn(k)
    \/ \E k \in Slots : CaseEnd(k)

\* The hooks of a case and the panics of its user code.
HookSteps ==
    \/ \E k \in Slots : SetupHook(k)
    \/ \E k \in Slots : SetupHookPanic(k)
    \/ \E k \in Slots : BodyPanic(k)
    \/ \E k \in Slots : TeardownStep(k)
    \/ \E k \in Slots : TeardownPanic(k)

\* The reads of variables by the user code of a case.
ReadSteps ==
    \/ \E k \in Slots, t \in Threads, n \in Names : ReadLock(k, t, n)
    \/ \E k \in Slots, t \in Threads : ReadHit(k, t)
    \/ \E k \in Slots, t \in Threads : ReadMiss(k, t)
    \/ \E k \in Slots, t \in Threads : ReadUndefined(k, t)
    \/ \E k \in Slots, t \in Threads : ReadStore(k, t)

InitT == Init /\ tbKind = "T"
InitB == Init /\ tbKind = "B"

\* Hooks and parallelism of single test cases under a *testing.T.
NextHooks == ScopeCalls \/ HookCalls \/ CaseSteps \/ HookSteps
SpecHooks == InitT /\ [][NextHooks]_vars


\* The hooks, variable definitions and parallel flags a tree holds.
Mutations ==
    TotalHooks + Cardinality({c \in Ctx : parallel[c]})
               + Cardinality({cn \in Ctx \X Names : defs[cn[1]][cn[2]] # NoDef})

\* Every builder call, on trees of a bounded content, with single test cases
\* whose user code does not panic.
NextBuild ==
    \/ \E c \in Ctx : Context(c)
    \/ \E c \in Ctx : Test(c)
    \/ Finish
    \/ \E c \in Ctx : Before(c) /\ Mutations' <= MaxMutations
    \/ \E c \in Ctx : After(c) /\ Mutations' <= MaxMutations
    \/ \E c \in Ctx : Around(c) /\ Mutations' <= MaxMutations
    \/ \E c \in Ctx : Parallel(c) /\ Mutations' <= MaxMutations
    \/ \E c \in Ctx, n \in Names, b \in Blocks :
          Let(c, n, b) /\ Mutations' <= MaxMutations
    \/ \E c \in Ctx, n \in Names, v \in ConstInputs :
          LetValue(c, n, v) /\ Mutations' <= MaxMutations
    \/ CaseSteps
    \/ \E k \in Slots : SetupHook(k)
    \/ \E k \in Slots : TeardownStep(k)
SpecBuild == InitT /\ [][NextBuild]_vars

\* Variables of single test cases under a *testing.T, read by the body and
\* by Around hooks, on trees of a bounded content; no user code panics.
NextVars ==
    \/ \E c \in Ctx : Context(c)
    \/ \E c \in Ctx : Test(c)
    \/ Finish
    \/ \E c \in Ctx : Around(c) /\ Mutations' <= MaxMutations
    \/ \E c \in Ctx : Parallel(c) /\ Mutations' <= MaxMutations
    \/ \E c \in Ctx, n \in Names, b \in Blocks :
          Let(c, n, b) /\ Mutations' <= MaxMutations
    \/ \E c \in Ctx, n \in Names, v \in ConstInputs :
          LetValue(c, n, v) /\ Mutations' <= MaxMutations
    \/ CaseSteps
    \/ \E k \in Slots : SetupHook(k)
    \/ \E k \in Slots : TeardownStep(k)
    \/ ReadSteps
SpecVars == InitT /\ [][NextVars]_vars

\* Variables of benchmark cases under a *testing.B, on trees of a bounded
\* content.
NextBench ==
    \/ \E c \in Ctx : Context(c)
    \/ \E c \in Ctx : Test(c)
    \/ \E c \in Ctx : Parallel(c) /\ Mutations' <= MaxMutations
    \/ \E c \in Ctx, n \in Names, b \in Blocks :
          Let(c, n, b) /\ Mutations' <= MaxMutations
    \/ \E c \in Ctx, n \in Names, v \in ConstInputs :
          LetValue(c, n, v) /\ Mutations' <= MaxMutations
    \/ \E k \in Slots, n \in 1..MaxIter : RunStart(k, n)
    \/ \E k \in Slots : SetupReturn(k)
    \/ \E k \in Slots, t \in Threads : IterStart(k, t)
    \/ \E k \in Slots, t \in Threads : IterEnd(k, t)
    \/ \E k \in Slots : IterPanic(k)
    \/ \E k \in Slots, t \in Threads : WorkerPanic(k, t)
    \/ \E k \in Slots : LoopReturn(k)
    \/ \E k \in Slots : TeardownReturn(k)
    \/ \E k \in Slots : CaseEnd(k)
    \/ ReadSteps
SpecBench == InitB /\ [][NextBench]_vars

\* Test cases without panics under any host runner: a *testing.T, a
\* *testing.B, or a testing.TB of another type.
NextHost ==
    \/ \E c \in Ctx : Context(c)
    \/ \E c \in Ctx : Test(c)
    \/ HookCalls
    \/ \E c \in Ctx : Parallel(c)
    \/ Finish
    \/ \E k \in Slots, n \in 0..MaxIter : RunStart(k, n)
    \/ \E k \in Slots : SetupHook(k)
    \/ \E k \in Slots : SetupReturn(k)
    \/ \E k \in Slots : RequestParallel(k)
    \/ \E k \in Slots : Resume(k)
    \/ \E k \in Slots : BodyStart(k)
    \/ \E k \in Slots : BodyReturn(k)
    \/ \E k \in Slots, t \in Threads : IterStart(k, t)
    \/ \E k \in Slots, t \in Threads : IterEnd(k, t)
    \/ \E k \in Slots : LoopReturn(k)
    \/ \E k \in Slots : TeardownStep(k)
    \/ \E k \in Slots : TeardownReturn(k)
    \/ \E k \in Slots : CaseEnd(k)
SpecHost == Init /\ [][NextHost]_vars

\* ------------------------------------------------------------- claims
\* a is c or one of the scopes above it.
RECURSIVE IsAncestorOrSelf(_, _)
IsAncestorOrSelf(a, c) ==
    \/ a = c
    \/ parent[c] # NoParent /\ IsAncestorOrSelf(a, parent[c])

IsAncestor(a, c) == a # c /\ IsAncestorOrSelf(a, c)

\* A child scope has been opened from c.
HasChild(c) == \E d \in Live : parent[d] = c

\* Parallel was called on a scope of the chain of c.
Marked(c) == \E a \in Live : IsAncestorOrSelf(a, c) /\ parallel[a]

\* The hooks added to the scopes of the chain of c.
RECURSIVE HookCountTo(_)
HookCountTo(c) ==
    Len(hooks[c]) + (IF parent[c] = NoParent THEN 0 ELSE HookCountTo(parent[c]))

Started(k) == pc[k] \notin {"free", "start"}

\* The positions of the events of the given sorts in the trace of a case.
EvIdx(k, sorts) == {i \in 1..Len(trace[k]) : trace[k][i].e \in sorts}

\* The hooks of the events of the given sorts, in the order of the trace.
RECURSIVE HooksIn(_, _)
HooksIn(tr, sorts) ==
    IF tr = <<>> THEN <<>>
    ELSE (IF Head(tr).e \in sorts THEN <<Head(tr).h>> ELSE <<>>)
         \o HooksIn(Tail(tr), sorts)

Invoked(k) == HooksIn(trace[k], {"setup", "setupPanic"})
SetUp(k) == HooksIn(trace[k], {"setup"})
TornDown(k) == HooksIn(trace[k], {"teardown", "teardownPanic"})

\* The teardowns that have run are those of the last setups, last first.
ReverseOfSetups(k) ==
    /\ Len(TornDown(k)) <= Len(SetUp(k))
    /\ \A i \in 1..Len(TornDown(k)) :
          TornDown(k)[i] = SetUp(k)[Len(SetUp(k)) + 1 - i]

\* h1 is set up before h2: its scope is above, or it was added before to
\* the same scope.
RunsBefore(h1, h2) ==
    \/ h1.ctx = h2.ctx /\ h1.pos < h2.pos
    \/ IsAncestor(h1.ctx, h2.ctx)

\* C1: in every test case the hook setups run in root-to-leaf scope order
\* and, within a scope, in the order the hooks were added; every hook of the
\* chain has been set up when the parallel request or the body is reached;
\* the teardowns run after the setups, in the exact reverse of the setup
\* order, and all of them have run when the case is done.
C1_SetupThenReverseTeardown ==
    \A k \in Slots : Started(k) =>
        /\ \A i, j \in 1..Len(Invoked(k)) :
              i < j => RunsBefore(Invoked(k)[i], Invoked(k)[j])
        /\ \A i \in 1..Len(Invoked(k)) :
              IsAncestorOrSelf(Invoked(k)[i].ctx, leaf[k])
        /\ EvIdx(k, {"body", "parallel"}) # {} =>
              Len(SetUp(k)) = HookCountTo(leaf[k])
        /\ ReverseOfSetups(k)
        /\ \A i \in EvIdx(k, {"setup", "setupPanic"}) :
              \A j \in EvIdx(k, {"body", "teardown", "teardownPanic"}) : i < j
        /\ \A i \in EvIdx(k, {"body"}) :
              \A j \in EvIdx(k, {"teardown", "teardownPanic"}) : i < j
        /\ pc[k] = "done" => Len(TornDown(k)) = Len(SetUp(k))

\* A finished case with a hook in the root and a hook in a scope below: the
\* root's was set up first and torn down last, around the body.
C1_Witness ==
    \E k \in Slots :
        /\ pc[k] = "done"
        /\ Len(trace[k]) = 5
        /\ trace[k][1].e = "setup" /\ trace[k][1].h.ctx = Root
        /\ trace[k][2].e = "setup" /\ trace[k][2].h.ctx # Root
        /\ trace[k][3].e = "body"
        /\ trace[k][4].e = "teardown" /\ trace[k][4].h = trace[k][2].h
        /\ trace[k][5].e = "teardown" /\ trace[k][5].h = trace[k][1].h

\* C3: when the body of a case has panicked, every teardown pushed by the
\* setups of the case has run, after the panic and in reverse order of
\* setup, by the time the panic reaches the host runner.
C3_TeardownAfterBodyPanic ==
    \A k \in Slots :
        (pc[k] = "done" /\ EvIdx(k, {"bodyPanic"}) # {}) =>
            /\ panicking[k]
            /\ Len(SetUp(k)) = HookCountTo(leaf[k])
            /\ Len(TornDown(k)) = Len(SetUp(k))
            /\ ReverseOfSetups(k)
            /\ \A i \in EvIdx(k, {"bodyPanic"}) :
                  \A j \in EvIdx(k, {"teardown", "teardownPanic"}) : i < j

\* A case whose body panicked after two setups and whose two teardowns ran.
C3_Witness ==
    \E k \in Slots :
        /\ pc[k] = "done"
        /\ Len(trace[k]) = 6
        /\ trace[k][1].e = "setup" /\ trace[k][2].e = "setup"
        /\ trace[k][3].e = "body" /\ trace[k][4].e = "bodyPanic"
        /\ trace[k][5].e = "teardown" /\ trace[k][5].h = trace[k][2].h
        /\ trace[k][6].e = "teardown" /\ trace[k][6].h = trace[k][1].h

\* C6: a case asks the host runner for parallel execution only if Parallel
\* was called on a scope of its chain, and a case whose body has started has
\* asked for it exactly if Parallel was called on a scope of its chain; the
\* parallel decision of every scope is that of its own chain, whatever flags
\* the scopes outside the chain have.
C6_ParallelIffOnChain ==
    /\ \A c \in Live : isParallel(c) <=> Marked(c)
    /\ \A k \in Slots : Started(k) =>
          /\ EvIdx(k, {"parallel"}) # {} => Marked(leaf[k])
          /\ EvIdx(k, {"body"}) # {} =>
                (EvIdx(k, {"parallel"}) # {} <=> Marked(leaf[k]))

\* A case in its body that never asked for parallel execution, while a case
\* of a sibling scope, on which Parallel was called, is parked as parallel.
C6_Witness ==
    \E k1, k2 \in Slots :
        /\ pc[k1] = "parked" /\ pc[k2] = "inbody"
        /\ EvIdx(k2, {"parallel"}) = {}
        /\ ~parallel[Root]
        /\ \E a \in Live :
              /\ parallel[a] /\ parent[a] = Root
              /\ IsAncestor(a, leaf[k1]) /\ ~IsAncestorOrSelf(a, leaf[k2])

\* C7: a single test case asks for parallel execution at most once, never
\* when no scope of its chain is parallel, only after every hook of the chain
\* has been set up and before the body starts; a parallel case whose body has
\* started has asked exactly once.
C7_ParallelAfterSetupBeforeBody ==
    \A k \in Slots : Started(k) =>
        /\ Cardinality(EvIdx(k, {"parallel"})) <= 1
        /\ ~Marked(leaf[k]) => EvIdx(k, {"parallel"}) = {}
        /\ \A p \in EvIdx(k, {"parallel"}) :
              /\ Cardinality(EvIdx(k, {"setup"})) = HookCountTo(leaf[k])
              /\ \A i \in EvIdx(k, {"setup", "setupPanic"}) : i < p
              /\ \A b \in EvIdx(k, {"body", "bodyPanic"}) : p < b
        /\ (Marked(leaf[k]) /\ EvIdx(k, {"body"}) # {}) =>
              Cardinality(EvIdx(k, {"parallel"})) = 1

\* A parallel case in its body: two setups, then the request, then the body.
C7_Witness ==
    \E k \in Slots :
        /\ pc[k] = "inbody"
        /\ Len(trace[k]) = 4
        /\ trace[k][1].e = "setup" /\ trace[k][2].e = "setup"
        /\ trace[k][3].e = "parallel" /\ trace[k][4].e = "body"

\* C10: when a teardown action of a case has panicked, every teardown pushed
\* by the setups of the case has still been invoked, in reverse order of
\* setup, by the time the case is done.
C10_TeardownNeverStopsEarly ==
    \A k \in Slots :
        (pc[k] = "done" /\ EvIdx(k, {"teardownPanic"}) # {}) =>
            /\ panicking[k]
            /\ Len(TornDown(k)) = Len(SetUp(k))
            /\ ReverseOfSetups(k)

\* A finished case whose first teardown action panicked and whose second
\* teardown action ran after it.
C10_Witness ==
    \E k \in Slots :
        /\ pc[k] = "done"
        /\ \E i \in EvIdx(k, {"teardownPanic"}) :
              /\ i < Len(trace[k])
              /\ trace[k][i + 1].e \in {"teardown", "teardownPanic"}
              /\ RunsBefore(trace[k][i + 1].h, trace[k][i].h)

\* The builder calls that add to a scope, and the panic each raises on an
\* immutable scope.
MutationCalls == {"Before", "After", "Around", "Let", "LetValue", "Parallel"}

WarningOf(op) ==
    IF op \in {"Before", "After", "Around"} THEN "hookWarning"
    ELSE IF op = "Parallel" THEN "parallelWarn"
    ELSE "varWarning"

\* Nothing is added to a scope from which a child has been opened.
FrozenOnceBranched ==
    \A c \in Ctx : HasChild(c) =>
        /\ hooks'[c] = hooks[c]
        /\ defs'[c] = defs[c]
        /\ parallel'[c] = parallel[c]

\* C2 as stated: a Before, After, Around, Let, LetValue or Parallel call
\* fails only on a scope from which a child has been opened, and then with
\* the immutability panic of the call.
C2_AsStated ==
    result.op \in MutationCalls =>
        /\ HasChild(result.ctx)
        /\ result.out = WarningOf(result.op)

\* C2 as amended: nothing is ever added to a scope from which a child has
\* been opened; a Before, After, Around, Let or Parallel call, and a LetValue
\* call with a literal of a kind LetValue accepts, fails only on such a
\* scope, and then with the immutability panic of the call; a LetValue call
\* with a literal of any other kind fails with the invalid-literal panic
\* instead, on any scope.
C2_ImmutableOnceBranched ==
    /\ [](result.op \in MutationCalls =>
            IF result.scalar
            THEN /\ HasChild(result.ctx)
                 /\ result.out = WarningOf(result.op)
            ELSE /\ result.op = "LetValue"
                 /\ result.out = "panicMessageForLetValue")
    /\ [][FrozenOnceBranched]_vars

\* A Before call that panicked on a scope whose only child is a test case.
C2_Witness ==
    /\ result.op = "Before" /\ result.out = "hookWarning"
    /\ \E d \in Live : parent[d] = result.ctx /\ d \notin specs
    /\ \A d \in Live : parent[d] = result.ctx => d \notin specs

\* The read that returned in the latest step returned a value.
GotValue == lastRead.val # NoVal

\* The case that made the latest read.
Reader == CHOOSE k \in Slots : leaf[k] = lastRead.leaf

\* C4: in one test-case execution the factory of a name is invoked at most
\* once, however many goroutines of the case read the name, and every read
\* returns the value of that one invocation, the one the case has memoized.
C4_FactoryAtMostOnce ==
    /\ \A k \in Slots, n \in Names : calls[k][n] <= 1
    /\ GotValue =>
          /\ lastRead.val.nth = 1
          /\ \E k \in Slots : leaf[k] = lastRead.leaf
          /\ cache[Reader][lastRead.n] = lastRead.val

\* A goroutine of the body got the value that the closure's goroutine
\* computed inside an Around hook's setup, while the closure's goroutine is
\* about to enter a read of the name again.
C4_Witness ==
    /\ GotValue
    /\ lastRead.t # 1 /\ lastRead.val.by = 1
    /\ pc[Reader] = "inbody"
    /\ HookCountTo(lastRead.leaf) > 0
    /\ EvIdx(Reader, {"setup"}) # {}
    /\ calls[Reader][lastRead.n] = 1

\* The scope of the chain of c, nearest to c, that defines the name.
IsNearestDefiner(a, c, n) ==
    /\ IsAncestorOrSelf(a, c)
    /\ defs[a][n] # NoDef
    /\ \A b \in Live :
          (IsAncestorOrSelf(b, c) /\ IsAncestor(a, b)) => defs[b][n] = NoDef

\* C5: a read returns the value of the definition of the nearest scope of
\* the reader's chain that defines the name, so a case below a redefining
\* scope gets the redefinition and a case of a sibling scope gets the
\* ancestor's; a read fails as undefined only when no scope of the chain
\* defines the name; and the definitions of a scope never change once a
\* child has been opened from it, so a definition in a descendant neither
\* removes nor changes the ancestor's.
C5_NearestDefinitionWins ==
    /\ [](lastRead # NoRead =>
            IF GotValue
            THEN \E a \in Live :
                    /\ IsNearestDefiner(a, lastRead.leaf, lastRead.n)
                    /\ lastRead.val.fac = defs[a][lastRead.n]
            ELSE \A a \in Live :
                    IsAncestorOrSelf(a, lastRead.leaf) => defs[a][lastRead.n] = NoDef)
    /\ [][\A c \in Ctx : HasChild(c) => defs'[c] = defs[c]]_vars

\* A case of the root scope got the root's definition, while a sibling scope
\* that has a case of its own redefines the name with another factory.
C5_Witness ==
    /\ GotValue
    /\ parent[lastRead.leaf] = Root
    /\ lastRead.val.fac = defs[Root][lastRead.n]
    /\ \E a \in Live :
          /\ parent[a] = Root /\ HasChild(a)
          /\ defs[a][lastRead.n] # NoDef
          /\ defs[a][lastRead.n] # defs[Root][lastRead.n]

\* C8: the value a read returns, and every value a case holds memoized, was
\* computed by that very case: each case invokes the factory itself.
C8_OwnCachePerCase ==
    /\ GotValue => lastRead.val.leaf = lastRead.leaf
    /\ \A k \in Slots, n \in Names :
          cache[k][n] # NoVal =>
              /\ cache[k][n].leaf = leaf[k]
              /\ calls[k][n] = 1

\* Two parallel sibling cases in their bodies at the same time, each holding
\* its own value of the same definition.
C8_Witness ==
    \E k1, k2 \in Slots, n \in Names :
        /\ k1 # k2
        /\ pc[k1] = "inbody" /\ pc[k2] = "inbody"
        /\ parent[leaf[k1]] = parent[leaf[k2]]
        /\ cache[k1][n] # NoVal /\ cache[k2][n] # NoVal
        /\ cache[k1][n].fac = cache[k2][n].fac
        /\ cache[k1][n].leaf # cache[k2][n].leaf

\* C9: in a benchmark, a read made in a pass of the loop returns a value
\* computed in that same pass.
C9_FreshCachePerIteration ==
    GotValue => lastRead.val.it = lastRead.it


\* The kinds of the plain scalar values of Go: strings, booleans and the
\* integer, floating-point and complex types.
PlainScalarKinds ==
    {"String", "Bool", "Int", "Int8", "Int16", "Int32", "Int64",
     "Uint", "Uint8", "Uint16", "Uint32", "Uint64", "Uintptr",
     "Float32", "Float64", "Complex64", "Complex128"}

\* The outcome of a LetValue call on scope c with a literal that is taken:
\* the variable is defined as that literal when no child has been opened
\* from c.
TakesLiteral(c, n, v) ==
    ~HasChild(c) => /\ defs'[c][n] = ValFactory(v.v)
                    /\ result' = NoPanic

\* The outcome of a LetValue call with a literal that is refused: the
\* invalid-constant panic, and no variable table changes.
RefusesLiteral ==
    /\ result'.op = "LetValue" /\ result'.out = "panicMessageForLetValue"
    /\ defs' = defs

\* C11 as stated: LetValue takes a literal of every plain scalar kind, any
\* integer kind included, and refuses a literal of any other kind.
C11_AsStated ==
    [][\A c \in specs, n \in Names, v \in ConstInputs :
          LetValue(c, n, v) =>
              IF v.rkind \in PlainScalarKinds
              THEN TakesLiteral(c, n, v)
              ELSE RefusesLiteral]_vars

\* C11 as amended: LetValue takes a literal of a plain scalar kind other
\* than uintptr on a scope without children, and the variable is then
\* defined as that literal; it refuses a literal of any other kind, uintptr
\* included, with the invalid-constant panic and defines nothing; and a read
\* that resolves to a LetValue definition returns the literal that the
\* nearest defining scope of the reader's chain was given.
C11_LetValueScalarOnly ==
    /\ [][\A c \in specs, n \in Names, v \in ConstInputs :
            LetValue(c, n, v) =>
                IF v.rkind \in PlainScalarKinds \ {"Uintptr"}
                THEN TakesLiteral(c, n, v)
                ELSE RefusesLiteral]_vars
    /\ [](\A c \in Live, n \in Names :
            defs[c][n].kind = "val" =>
                \E v \in ConstInputs :
                    /\ v.rkind \in PlainScalarKinds \ {"Uintptr"}
                    /\ defs[c][n].arg = v.v)
    /\ []((GotValue /\ lastRead.val.fac.kind = "val") =>
            \E a \in Live :
                /\ IsNearestDefiner(a, lastRead.leaf, lastRead.n)
                /\ defs[a][lastRead.n] = ValFactory(lastRead.val.fac.arg))

\* The body of a case read a variable that LetValue defined on the root with
\* an int literal, and got that literal.
C11_Witness ==
    /\ GotValue
    /\ lastRead.val.fac = ValFactory(42)
    /\ defs[Root][lastRead.n] = ValFactory(42)
    /\ pc[Reader] = "inbody"

\* The hooks of a sequence of hooks, as a set.
HookSet(hs) == {hs[i] : i \in 1..Len(hs)}

\* The hooks added so far to scope a.
HooksAt(a) == HookSet(hooks[a])

\* C12: the hooks that run for a test case, at setup or at teardown, were
\* all added to scopes of the case's chain; once the case has reached its
\* parallel request or its body, a hook of the tree has been set up for it
\* exactly if its scope is on the chain, so the hooks of sibling scopes and
\* of scopes below an ancestor's other branches are not among them; and once
\* such a case is done, the same hooks have been torn down.
C12_HookRunsIffOnChain ==
    \A k \in Slots : Started(k) =>
        /\ \A h \in HookSet(Invoked(k)) \cup HookSet(TornDown(k)) :
              /\ IsAncestorOrSelf(h.ctx, leaf[k])
              /\ h \in HooksAt(h.ctx)
        /\ EvIdx(k, {"body", "parallel"}) # {} =>
              \A a \in Live : \A h \in HooksAt(a) :
                  h \in HookSet(SetUp(k)) <=> IsAncestorOrSelf(a, leaf[k])
        /\ (pc[k] = "done" /\ EvIdx(k, {"body"}) # {}) =>
              \A a \in Live : \A h \in HooksAt(a) :
                  h \in HookSet(TornDown(k)) <=> IsAncestorOrSelf(a, leaf[k])

\* Two sibling scopes with a hook each, and a finished case of one of them
\* for which that scope's hook ran and the other's did not.
C12_Witness ==
    \E k \in Slots : \E a, b \in Live :
        /\ pc[k] = "done"
        /\ a # b /\ parent[a] = Root /\ parent[b] = Root
        /\ parent[leaf[k]] = a
        /\ Len(hooks[a]) = 1 /\ Len(hooks[b]) = 1
        /\ SetUp(k) = hooks[a] /\ TornDown(k) = hooks[a]

\* No closure was handed to the host runner and no user code of a case ran.
NothingRan ==
    \A k \in Slots :
        /\ pc[k] = "free" /\ leaf[k] = 0
        /\ trace[k] = <<>> /\ defers[k] = <<>> /\ hidx[k] = 0

\* C13: under a host runner that is neither a *testing.T nor a *testing.B
\* every Test call fails with the unsupported-type panic, and no case is
\* ever registered and no hook setup, body or teardown ever runs; under a
\* *testing.T or a *testing.B no Test call fails that way.
C13_UnsupportedHostKind ==
    /\ [](tbKind \notin {"T", "B"} => NothingRan)
    /\ [](result.out = "unsupported" <=>
            (result.op = "Test" /\ tbKind \notin {"T", "B"}))
    /\ [][\A c \in specs :
            (Test(c) /\ tbKind \notin {"T", "B"}) =>
                /\ result' = Outcome("Test", c, "unsupported")
                /\ NothingRan']_vars

\* A Test call that failed as unsupported on a scope that has a hook which
\* the case would have run.
C13_Witness ==
    /\ tbKind = "other"
    /\ result.op = "Test" /\ result.out = "unsupported"
    /\ hooks[result.ctx] # <<>>
    /\ NothingRan

\* No hook occurs twice in the sequence.
NoRepeat(hs) == Cardinality(HookSet(hs)) = Len(hs)

\* The closure of the case is past its setup.
PastSetup(k) == pc[k] \in {"loop", "loopPar", "teardown", "done"}

\* C14: in a benchmark case every hook of the chain is set up exactly once,
\* before the first pass of the loop, whatever the number of passes and
\* whether the loop is the plain one or b.RunParallel; the teardowns run
\* once each, in reverse order of setup, only after the last pass has
\* returned, and never between two passes.
C14_BenchSetupTeardownOnce ==
    \A k \in Slots : (tbKind = "B" /\ Started(k)) =>
        /\ NoRepeat(SetUp(k)) /\ NoRepeat(TornDown(k))
        /\ ReverseOfSetups(k)
        /\ PastSetup(k) => SetUp(k) = CollectHooks(allLinkListElement(leaf[k]))
        /\ \A b \in EvIdx(k, {"body"}) :
              /\ \A i \in EvIdx(k, {"setup"}) : i < b
              /\ \A j \in EvIdx(k, {"teardown"}) : b < j
        /\ EvIdx(k, {"body"}) # {} => PastSetup(k)
        /\ EvIdx(k, {"teardown"}) # {} =>
              /\ nleft[k] = 0
              /\ \A t \in Threads : curIter[k][t] = 0
        /\ pc[k] = "done" =>
              /\ Len(TornDown(k)) = Len(SetUp(k))
              /\ Cardinality(EvIdx(k, {"body"})) = niter[k]

\* A finished benchmark case of two passes with one hook: one setup, the two
\* passes, one teardown.
C14_Witness ==
    \E k \in Slots :
        /\ tbKind = "B" /\ pc[k] = "done"
        /\ Len(trace[k]) = 4
        /\ trace[k][1].e = "setup"
        /\ trace[k][2].e = "body" /\ trace[k][3].e = "body"
        /\ trace[k][4].e = "teardown" /\ trace[k][4].h = trace[k][1].h

\* The step leaves every scope of the chain of case k as it is: its parent,
\* its hooks, its variable table and its parallel flag.
ChainFrozen(k) ==
    \A a \in Live : IsAncestorOrSelf(a, leaf[k]) =>
        /\ parent'[a] = parent[a]
        /\ hooks'[a] = hooks[a]
        /\ defs'[a] = defs[a]
        /\ parallel'[a] = parallel[a]

\* C15 as stated: once a test body has started running, no scope is created
\* and no hook, variable or parallel flag is added anywhere in the tree.
C15_AsStated ==
    [][ran => UNCHANGED <<nctx, parent, hooks, defs, parallel>>]_vars

\* C15 as amended: from the moment a test case is started until it is over,
\* no step changes a scope of its root-to-leaf chain, so the part of the
\* tree the case reads is read-only during its execution, also while it is
\* parked as parallel and other scopes are being built.
C15_ChainBuiltBeforeCase ==
    [][\A k \in Slots : pc[k] # "free" => ChainFrozen(k)]_vars

\* A parallel case is parked after its setups while a scope outside its
\* chain, opened after the case was started, has been given a hook.
C15_Witness ==
    \E k \in Slots : \E a \in Live :
        /\ pc[k] = "parked"
        /\ a > leaf[k] /\ ~IsAncestorOrSelf(a, leaf[k])
        /\ hooks[a] # <<>>

\* The children of scope c.
Children(c) == {d \in Live : parent[d] = c}

\* C16: a Context or Test call opens a new scope below the scope it is
\* called on, whether or not that scope is already immutable, and leaves
\* that scope immutable and the new scope mutable; the call never fails for
\* the state of the scope (a Test call fails only under a host runner of an
\* unsupported kind, after the scope was opened); a Context call can always
\* be made on a scope while the specification is being built; and the
\* immutable flag of a scope is set exactly when it has a child and never
\* goes back to false.
C16_SpawnNeverFails ==
    /\ [][\A c \in specs :
            (Context(c) \/ Test(c)) =>
                /\ nctx' = nctx + 1
                /\ Children(c)' = Children(c) \cup {nctx'}
                /\ immutable'[c] /\ ~immutable'[nctx']
                /\ \/ result' = NoPanic
                   \/ tbKind \notin {"T", "B"} /\ result'.out = "unsupported"]_vars
    /\ [][\A c \in Ctx : immutable[c] => immutable'[c]]_vars
    /\ [](\A c \in Live : immutable[c] <=> HasChild(c))
    /\ [](result.op # "Context" /\ (result.op = "Test" => tbKind \notin {"T", "B"}))
    /\ [](\A c \in specs : (Building /\ nctx < MaxCtx) => ENABLED Context(c))

\* Three scopes were opened from the root, a test case among them and a
\* sub-context among them, the later ones when the root was already
\* immutable, and no call has failed.
C16_Witness ==
    /\ Cardinality(Children(Root)) >= 3
    /\ Children(Root) \cap specs # {}
    /\ Children(Root) \ specs # {}
    /\ result = NoPanic

\* The parent links descend: the root has no parent, and every other scope
\* has a parent that was allocated before it.
Descending ==
    /\ parent[Root] = NoParent
    /\ \A c \in Live \ {Root} : parent[c] \in Live /\ parent[c] < c

\* The sequence is a path of the tree from the root down to c, without
\* repetition.
IsRootPath(ch, c) ==
    /\ Len(ch) >= 1 /\ Len(ch) <= nctx
    /\ ch[1] = Root /\ ch[Len(ch)] = c
    /\ \A i \in 1..(Len(ch) - 1) : parent[ch[i + 1]] = ch[i]
    /\ \A i, j \in 1..Len(ch) : i # j => ch[i] # ch[j]

\* C17: after any sequence of builder calls the parent links are acyclic and
\* lead from every scope to the single root; the parent of a scope is set
\* when the scope is created and never changes; and the chain traversal of
\* every scope returns the path from the root, first, to the scope, last,
\* each element being the parent of the next.
C17_ChainAcyclicRootFirst ==
    /\ [](Descending /\ \A c \in Live : IsRootPath(allLinkListElement(c), c))
    /\ [][\A c \in Live : parent'[c] = parent[c]]_vars

\* A tree with a branch: the root has two children, and the chain of a scope
\* below the second one passes by it and not by the first.
C17_Witness ==
    /\ nctx = 4
    /\ parent[2] = Root /\ parent[3] = Root /\ parent[4] = 3
    /\ allLinkListElement(4) = <<1, 3, 4>>

\* What case k observes of its chain stays as it is in the step: the hooks
\* its setup runs, its parallel decision, and the definition every name
\* resolves to.
SameObservation(k) ==
    /\ SetupHooks(k)' = SetupHooks(k)
    /\ isParallel(leaf[k])' = isParallel(leaf[k])
    /\ \A n \in Names : Resolve(leaf[k], n)' = Resolve(leaf[k], n)

\* C18: once a scope has a child, no later builder call changes its hook
\* list, its variable table or its parallel flag; so what a test case
\* observes of its chain (the hooks, the parallel decision, the definition
\* of each name) is the same at every step from the opening of its branch
\* to its end, and a value read in a body that runs later, in parallel
\* mode, comes from the definition the name resolves to at that time.
C18_FrameAfterFirstChild ==
    /\ [][\A c \in Live : HasChild(c) =>
            <<hooks[c], defs[c], parallel[c]>>' = <<hooks[c], defs[c], parallel[c]>>]_vars
    /\ [][\A k \in Slots :
            (pc[k] # "free" /\ pc'[k] # "free") => SameObservation(k)]_vars
    /\ [](GotValue => lastRead.val.fac = Resolve(lastRead.leaf, lastRead.n))

\* A parallel case, resumed after the specification was built, read a name
\* in its body and got its ancestor's definition, while a scope opened after
\* the case's branch defines the name otherwise.
C18_Witness ==
    /\ GotValue /\ built
    /\ EvIdx(Reader, {"parallel"}) # {}
    /\ pc[Reader] = "inbody"
    /\ \E a \in Live :
          /\ a > lastRead.leaf
          /\ defs[a][lastRead.n] # NoDef
          /\ defs[a][lastRead.n] # lastRead.val.fac

\* The step is a builder call of the given kinds that failed.
FailedCall(ops) == result' # result /\ result'.op \in ops

\* C19: a Before, After, Around, Let, LetValue or Parallel call that fails,
\* for immutability or for the kind of the literal, leaves every scope as it
\* was: no hook is added, no variable is defined or overwritten, no parallel
\* flag is set, and no scope is created or frozen.
C19_FailedCallLeavesTree ==
    [][FailedCall(MutationCalls) =>
          /\ result'.out \in {"hookWarning", "varWarning", "parallelWarn",
                               "panicMessageForLetValue"}
          /\ UNCHANGED <<hooks, defs, parallel>>
          /\ UNCHANGED <<nctx, parent, immutable>>]_vars

\* A LetValue call was rejected for immutability on a scope that defines the
\* name with a Let block, and the definition is still that block.
C19_Witness ==
    /\ result.op = "LetValue" /\ result.out = "varWarning"
    /\ HasChild(result.ctx)
    /\ \E n \in Names, b \in Blocks : defs[result.ctx][n] = LetFactory(b)

\* The position in the trace of case k at which a hook's setup panicked.
PanicAt(k) == CHOOSE p \in EvIdx(k, {"setupPanic"}) : TRUE

\* C20: when the setup of the k-th hook of the chain of a case panics, the
\* hooks before it, and only they, have been set up, in chain order; no
\* later hook is set up afterwards; the case never asks for parallel
\* execution and its body never starts; the teardowns of the hooks that were
\* set up run after the panic, in reverse order, and all of them have run
\* when the panic reaches the host runner.
C20_SetupPanicUnwinds ==
    \A k \in Slots : (Started(k) /\ EvIdx(k, {"setupPanic"}) # {}) =>
        LET n == Len(SetUp(k)) IN
        /\ Cardinality(EvIdx(k, {"setupPanic"})) = 1
        /\ panicking[k] /\ pc[k] \in {"teardown", "done"}
        /\ n < Len(SetupHooks(k))
        /\ SetUp(k) = SubSeq(SetupHooks(k), 1, n)
        /\ trace[k][PanicAt(k)].h = SetupHooks(k)[n + 1]
        /\ \A i \in EvIdx(k, {"setup"}) : i < PanicAt(k)
        /\ EvIdx(k, {"parallel", "body", "bodyPanic"}) = {}
        /\ \A j \in EvIdx(k, {"teardown", "teardownPanic"}) : PanicAt(k) < j
        /\ ReverseOfSetups(k)
        /\ pc[k] = "done" => Len(TornDown(k)) = n

\* A finished case with two hooks: the first was set up, the setup of the
\* second panicked, and the teardown of the first ran.
C20_Witness ==
    \E k \in Slots :
        /\ pc[k] = "done"
        /\ Len(trace[k]) = 3
        /\ trace[k][1].e = "setup"
        /\ trace[k][2].e = "setupPanic"
        /\ trace[k][3].e = "teardown" /\ trace[k][3].h = trace[k][1].h
====
